---- MODULE Spec2Model ----
(***************************************************************************)
(* AGV motion and task-dispatch engine of the warehouse digital twin.      *)
(*                                                                         *)
(* Two engine variants are modelled side by side:                          *)
(*   "rest" : backend/simulation.py          (REST-fronted store)          *)
(*   "pg"   : backend/simulation_postgres.py (direct PostgreSQL)           *)
(*                                                                         *)
(* Fixed-point units (every quantity of the code is an exact multiple):    *)
(*   time      1 = 0.1 s      position  1 = 0.001 m                        *)
(*   battery   1 = 0.01 %     speed     1 = 0.001 m per 0.1 s              *)
(* Python None is <<>>, a present value v is <<v>>.                        *)
(*                                                                         *)
(* The store is an external collaborator: each request is answered with    *)
(* its rows, with a non-200 status (supabase_request then returns []), or  *)
(* with an exception; faults counts the failed requests of a run.  The     *)
(* wall-clock length of a loop iteration (iter_dur) and the speed          *)
(* multiplier (sim_speed) are fixed per run.                               *)
(***************************************************************************)
EXTENDS Integers, Sequences, FiniteSets, TLC

VARIABLES
    variant,         \* which engine file is running
    running,         \* WMSSimulation.running
    sim_speed,       \* SIMULATION_SPEED
    agvs,            \* WMSSimulation.agvs / simulation_loop agvs : Seq(AGVSimulator)
    agv_data,        \* rows read from the store at startup
    pc,              \* position of the loop
    idx,             \* index of the for-loop over agvs
    dt,              \* dt of the iteration in progress
    clock,           \* time.time()
    iter_dur,        \* wall-clock length of one loop iteration in this run
    last_time,       \* simulation_loop last_time
    last_mission,    \* WMSSimulation.run last_mission
    update_counter,  \* simulation_loop update_counter
    db_agvs,         \* store table agvs
    db_missions,     \* store table missions
    db_locations,    \* store table locations
    db_stock,        \* store table stock_items
    am,              \* locals of the last assign_mission invocation
    faults           \* number of store errors injected so far

vars == <<variant, running, sim_speed, agvs, agv_data, pc, idx, dt, clock, iter_dur, last_time,
          last_mission, update_counter, db_agvs, db_missions, db_locations,
          db_stock, am, faults>>

-----------------------------------------------------------------------------
(* Program constants, in the fixed-point units above *)

UPDATE_RATE    == 1       \* 0.1 s
SPEED          == 200     \* 2.0 m/s
EPS            == 200     \* 0.2 m
CHARGE_RATE    == 100     \* dt * 10   (% per s)
IDLE_DRAIN     == 1       \* dt * 0.1
MOVE_DRAIN     == 5       \* dt * 0.5
BAT_MAX        == 10000   \* 100 %
CHARGE_DONE    == 8000    \* 80 %
LOW_BAT        == 2000    \* 20 %
DISPATCH_BAT   == 3000    \* 30 %
DEPOT_X        == -20000  \* -20 m
DEPOT_Z        == -10000  \* -10 m
DWELL_REST     == 15      \* 1.5 s
DWELL_PG       == 30      \* 3.0 s
MISSION_PERIOD == 100     \* 10 s
FLUSH_EVERY    == 10      \* iterations

(* Bounds of the model *)

MaxClock  == 230          \* wall-clock horizon of a run
SlowIter  == 50           \* wall-clock length of an iteration that overruns the period
FastSpeed == 5            \* the raised simulation-speed multiplier
MaxFaults == 1            \* store errors injected per run

-----------------------------------------------------------------------------
(* Python values *)

None    == <<>>
Some(v) == <<v>>
Val(o)  == o[1]

Min(a, b) == IF a <= b THEN a ELSE b
Max(a, b) == IF a >= b THEN a ELSE b
Abs(a)    == IF a >= 0 THEN a ELSE 0 - a

RECURSIVE Gcd(_, _)
Gcd(a, b) == IF b = 0 THEN a ELSE Gcd(b, a % b)

RECURSIVE SqrtSearch(_, _, _)
SqrtSearch(n, lo, hi) ==
    IF lo >= hi THEN lo
    ELSE LET mid == (lo + hi + 1) \div 2
         IN  IF mid * mid <= n THEN SqrtSearch(n, mid, hi)
                               ELSE SqrtSearch(n, lo, mid - 1)

\* math.sqrt(dx*dx + dz*dz), rounded down to the position unit
Dist(dx, dz) == SqrtSearch(dx * dx + dz * dz, 0, Abs(dx) + Abs(dz))

\* An angle is <<a, b, r>>: the angle of the reduced direction atan2(a, b),
\* exact when r = 0 and rounded to three decimals when r = 1.
ANGLE_0 == <<0, 1, 0>>

\* math.atan2(a, b); atan2(0, 0) is 0
Atan2(a, b) ==
    LET g == Gcd(Abs(a), Abs(b))
    IN  IF g = 0 THEN ANGLE_0 ELSE <<a \div g, b \div g, 0>>

\* round(v, n) for a value kept in units of a tenth of the last decimal
\* retained: to the nearest multiple of 10, ties to even
Round(v) ==
    LET q == v \div 10
        r == v % 10
    IN  IF r < 5 THEN 10 * q
        ELSE IF r > 5 THEN 10 * (q + 1)
        ELSE IF q % 2 = 0 THEN 10 * q ELSE 10 * (q + 1)

\* round(rotation, 3): only the angle 0 is its own rounding
Round3(h) == IF h[1] = 0 /\ h[2] > 0 THEN h ELSE <<h[1], h[2], 1>>

\* Python truthiness of self.target_x
Truthy(o) == o # None /\ Val(o) # 0

-----------------------------------------------------------------------------
(* Store reads *)

\* supabase_request(..., single=True): first row, or the empty list
Single(rows) == IF rows = <<>> THEN None ELSE Some(rows[1])

LocationById(locs, id) ==
    LET Keep(r) == r.id = id IN Single(SelectSeq(locs, Keep))

FreeLocation(locs) ==
    LET Keep(r) == ~r.occupied IN Single(SelectSeq(locs, Keep))

\* outcome of one GET: the rows, [] on a non-200 answer, or an exception
GetOutcomes == {"ok", "empty", "raise"}

-----------------------------------------------------------------------------
(* AGVSimulator *)

\* AGVSimulator.__init__ (both variants)
NewAgv(row) ==
    [id |-> row.id, x |-> row.x_m, y |-> row.y_m, z |-> row.z_m,
     rotation |-> row.rotation_rad, status |-> row.status,
     battery |-> row.battery, speed |-> SPEED,
     target_x |-> None, target_z |-> None, mission |-> None,
     loading_timer |-> 0]

HasTarget(a) == a.target_x # None /\ a.target_z # None

\* Charge that ends the charge only strictly above 80
Charge_Above(a, d) ==
    LET b == Min(BAT_MAX, a.battery + d * CHARGE_RATE)
    IN  [a EXCEPT !.battery = b,
                  !.status = IF b > CHARGE_DONE THEN "idle" ELSE "charging"]

\* update, status 'charging' (same in both variants)
Charge(a, d) ==
    LET b == Min(BAT_MAX, a.battery + d * CHARGE_RATE)
    IN  [a EXCEPT !.battery = b,
                  !.status = IF b >= CHARGE_DONE THEN "idle" ELSE "charging"]

\* IdleDrain without the floor at 0
IdleDrain_NoFloor(a, d) ==
    LET b == a.battery - d * IDLE_DRAIN
    IN  IF b < LOW_BAT
        THEN [a EXCEPT !.battery = b, !.status = "charging",
                       !.target_x = Some(DEPOT_X), !.target_z = Some(DEPOT_Z)]
        ELSE [a EXCEPT !.battery = b]

\* IdleDrain that sends the vehicle to the depot at 20 as well as below it
IdleDrain_AtThreshold(a, d) ==
    LET b == Max(0, a.battery - d * IDLE_DRAIN)
    IN  IF b <= LOW_BAT
        THEN [a EXCEPT !.battery = b, !.status = "charging",
                       !.target_x = Some(DEPOT_X), !.target_z = Some(DEPOT_Z)]
        ELSE [a EXCEPT !.battery = b]

\* update, status 'idle' (same in both variants)
IdleDrain(a, d) ==
    LET b == Max(0, a.battery - d * IDLE_DRAIN)
    IN  IF b < LOW_BAT
        THEN [a EXCEPT !.battery = b, !.status = "charging",
                       !.target_x = Some(DEPOT_X), !.target_z = Some(DEPOT_Z)]
        ELSE [a EXCEPT !.battery = b]

\* MoveRest that ends the approach to the pickup in 'idle', mission kept
MoveRest_PickToIdle(a, d) ==
    LET dx   == Val(a.target_x) - a.x
        dz   == Val(a.target_z) - a.z
        dist == Dist(dx, dz)
    IN  IF dist < EPS
        THEN [a EXCEPT !.x = Val(a.target_x), !.z = Val(a.target_z),
                       !.target_x = None, !.target_z = None,
                       !.status = IF a.status = "moving_to_pick" THEN "idle"
                                  ELSE IF a.status = "moving_to_drop" THEN "unloading"
                                  ELSE a.status]
        ELSE LET move_dist == a.speed * d
             IN  [a EXCEPT !.rotation = Atan2(dz, dx),
                           !.x = a.x + (dx * move_dist) \div dist,
                           !.z = a.z + (dz * move_dist) \div dist,
                           !.battery = Max(0, a.battery - d * MOVE_DRAIN)]

\* MoveRest that drains the battery at the idle rate while moving
MoveRest_IdleRate(a, d) ==
    LET dx   == Val(a.target_x) - a.x
        dz   == Val(a.target_z) - a.z
        dist == Dist(dx, dz)
    IN  IF dist < EPS
        THEN [a EXCEPT !.x = Val(a.target_x), !.z = Val(a.target_z),
                       !.target_x = None, !.target_z = None,
                       !.status = IF a.status = "moving_to_pick" THEN "loading"
                                  ELSE IF a.status = "moving_to_drop" THEN "unloading"
                                  ELSE a.status]
        ELSE LET move_dist == a.speed * d
             IN  [a EXCEPT !.rotation = Atan2(dz, dx),
                           !.x = a.x + (dx * move_dist) \div dist,
                           !.z = a.z + (dz * move_dist) \div dist,
                           !.battery = Max(0, a.battery - d * IDLE_DRAIN)]

\* simulation.py update, "Mouvement vers target"
MoveRest(a, d) ==
    LET dx   == Val(a.target_x) - a.x
        dz   == Val(a.target_z) - a.z
        dist == Dist(dx, dz)
    IN  IF dist < EPS
        THEN [a EXCEPT !.x = Val(a.target_x), !.z = Val(a.target_z),
                       !.target_x = None, !.target_z = None,
                       !.status = IF a.status = "moving_to_pick" THEN "loading"
                                  ELSE IF a.status = "moving_to_drop" THEN "unloading"
                                  ELSE a.status]
        ELSE LET move_dist == a.speed * d
             IN  [a EXCEPT !.rotation = Atan2(dz, dx),
                           !.x = a.x + (dx * move_dist) \div dist,
                           !.z = a.z + (dz * move_dist) \div dist,
                           !.battery = Max(0, a.battery - d * MOVE_DRAIN)]

\* DwellRest that keeps the mission reference when unloading ends
DwellRest_KeepMission(a, d, resp, locs) ==
    IF a.status \notin {"loading", "unloading"}
    THEN [agv |-> a, raised |-> FALSE]
    ELSE LET t == a.loading_timer + d
         IN  IF t < DWELL_REST
             THEN [agv |-> [a EXCEPT !.loading_timer = t], raised |-> FALSE]
             ELSE IF a.status = "loading" /\ a.mission # None
             THEN LET b == [a EXCEPT !.loading_timer = 0, !.status = "moving_to_drop"]
                      drop_loc == IF resp = "ok"
                                  THEN LocationById(locs, Val(a.mission).dropoff_location_id)
                                  ELSE None
                  IN  IF resp = "raise" THEN [agv |-> b, raised |-> TRUE]
                      ELSE IF drop_loc # None
                      THEN [agv |-> [b EXCEPT !.target_x = Some(Val(drop_loc).x_m),
                                              !.target_z = Some(Val(drop_loc).z_m)],
                            raised |-> FALSE]
                      ELSE [agv |-> b, raised |-> FALSE]
             ELSE IF a.status = "unloading"
             THEN [agv |-> [a EXCEPT !.loading_timer = 0, !.status = "idle"],
                   raised |-> FALSE]
             ELSE [agv |-> [a EXCEPT !.loading_timer = 0], raised |-> FALSE]

\* simulation.py update, "Loading/unloading"; resp is the outcome of the
\* GET of the dropoff location
DwellRest(a, d, resp, locs) ==
    IF a.status \notin {"loading", "unloading"}
    THEN [agv |-> a, raised |-> FALSE]
    ELSE LET t == a.loading_timer + d
         IN  IF t < DWELL_REST
             THEN [agv |-> [a EXCEPT !.loading_timer = t], raised |-> FALSE]
             ELSE IF a.status = "loading" /\ a.mission # None
             THEN LET b == [a EXCEPT !.loading_timer = 0, !.status = "moving_to_drop"]
                      drop_loc == IF resp = "ok"
                                  THEN LocationById(locs, Val(a.mission).dropoff_location_id)
                                  ELSE None
                  IN  IF resp = "raise" THEN [agv |-> b, raised |-> TRUE]
                      ELSE IF drop_loc # None
                      THEN [agv |-> [b EXCEPT !.target_x = Some(Val(drop_loc).x_m),
                                              !.target_z = Some(Val(drop_loc).z_m)],
                            raised |-> FALSE]
                      ELSE [agv |-> b, raised |-> FALSE]
             ELSE IF a.status = "unloading"
             THEN [agv |-> [a EXCEPT !.loading_timer = 0, !.status = "idle",
                                     !.mission = None],
                   raised |-> FALSE]
             ELSE [agv |-> [a EXCEPT !.loading_timer = 0], raised |-> FALSE]

\* simulation.py AGVSimulator.update
UpdateRest(a, d, resp, locs) ==
    IF a.status = "charging" THEN [agv |-> Charge(a, d), raised |-> FALSE]
    ELSE IF a.status = "idle" THEN [agv |-> IdleDrain(a, d), raised |-> FALSE]
    ELSE DwellRest(IF HasTarget(a) THEN MoveRest(a, d) ELSE a, d, resp, locs)

\* MovePg that sends a vehicle whose battery ran out on the way to charging
MovePg_ChargeWhenEmpty(a, d) ==
    LET dx   == Val(a.target_x) - a.x
        dz   == Val(a.target_z) - a.z
        dist == Dist(dx, dz)
    IN  IF dist < EPS
        THEN LET b == [a EXCEPT !.x = Val(a.target_x), !.z = Val(a.target_z)]
             IN  IF a.status = "moving_to_pickup"
                 THEN [b EXCEPT !.status = "loading", !.loading_timer = DWELL_PG]
                 ELSE IF a.status = "moving_to_dropoff"
                 THEN [b EXCEPT !.status = "unloading", !.loading_timer = DWELL_PG]
                 ELSE [b EXCEPT !.status = "idle",
                                !.target_x = None, !.target_z = None]
        ELSE LET move_dist == Min(a.speed * d, dist)
                 bat       == Max(0, a.battery - d * MOVE_DRAIN)
             IN  [a EXCEPT !.x = a.x + (dx * move_dist) \div dist,
                           !.z = a.z + (dz * move_dist) \div dist,
                           !.rotation = Atan2(dx, dz),
                           !.battery = bat,
                           !.status = IF bat = 0 THEN "charging" ELSE a.status]

\* simulation_postgres.py update, "Mouvement vers target"
MovePg(a, d) ==
    LET dx   == Val(a.target_x) - a.x
        dz   == Val(a.target_z) - a.z
        dist == Dist(dx, dz)
    IN  IF dist < EPS
        THEN LET b == [a EXCEPT !.x = Val(a.target_x), !.z = Val(a.target_z)]
             IN  IF a.status = "moving_to_pickup"
                 THEN [b EXCEPT !.status = "loading", !.loading_timer = DWELL_PG]
                 ELSE IF a.status = "moving_to_dropoff"
                 THEN [b EXCEPT !.status = "unloading", !.loading_timer = DWELL_PG]
                 ELSE [b EXCEPT !.status = "idle",
                                !.target_x = None, !.target_z = None]
        ELSE LET move_dist == Min(a.speed * d, dist)
             IN  [a EXCEPT !.x = a.x + (dx * move_dist) \div dist,
                           !.z = a.z + (dz * move_dist) \div dist,
                           !.rotation = Atan2(dx, dz),
                           !.battery = Max(0, a.battery - d * MOVE_DRAIN)]

\* simulation_postgres.py update, "Gestion loading/unloading"
DwellPg(a, d) ==
    IF a.status \notin {"loading", "unloading"} THEN a
    ELSE LET t == a.loading_timer - d
         IN  IF t <= 0
             THEN [a EXCEPT !.loading_timer = t, !.status = "idle",
                            !.target_x = None, !.target_z = None]
             ELSE [a EXCEPT !.loading_timer = t]

\* UpdatePg that treats every status it does not know as 'idle'
UpdatePg_DefaultIdle(a, d) ==
    IF a.status = "charging" THEN Charge(a, d)
    ELSE IF a.status \in {"loading", "unloading", "moving_to_pickup", "moving_to_dropoff"}
    THEN DwellPg(IF HasTarget(a) THEN MovePg(a, d) ELSE a, d)
    ELSE IdleDrain(a, d)

\* simulation_postgres.py AGVSimulator.update
UpdatePg(a, d) ==
    IF a.status = "charging" THEN Charge(a, d)
    ELSE IF a.status = "idle" THEN IdleDrain(a, d)
    ELSE DwellPg(IF HasTarget(a) THEN MovePg(a, d) ELSE a, d)

-----------------------------------------------------------------------------
(* Store contents at startup *)

AgvRow(id, st, bat, x, z) ==
    [id |-> id, x_m |-> x, y_m |-> 0, z_m |-> z, rotation_rad |-> ANGLE_0,
     status |-> st, battery |-> bat,
     speed_mps |-> IF st \in {"moving_to_pick", "moving_to_drop",
                              "moving_to_pickup", "moving_to_dropoff"}
                   THEN SPEED ELSE 0]

Fleets ==
    { <<>>,
      << AgvRow("AGV-001", "idle", 10000, 0, 0) >>,
      << AgvRow("AGV-001", "idle", 3600, 0, 400),
         AgvRow("AGV-002", "idle", 2003, 0, 0) >>,
      << AgvRow("AGV-001", "idle", 3, 0, 0) >>,
      << AgvRow("AGV-001", "charging", 7900, 0, 0),
         AgvRow("AGV-002", "moving_to_pickup", 5000, 0, 0) >>,
      << AgvRow("AGV-001", "loading", 5000, 0, 0),
         AgvRow("AGV-002", "unloading", 5000, 0, 0) >>,
      << AgvRow("AGV-001", "moving_to_pick", 5000, 0, 0),
         AgvRow("AGV-002", "moving_to_drop", 5000, 0, 0) >>,
      << AgvRow("AGV-001", "error", 5000, 0, 0),
         AgvRow("AGV-002", "idle", 10000, 0, 0) >>,
      << AgvRow("AGV-001", "idle", 15000, 0, 0),
         AgvRow("AGV-002", "charging", -500, 0, 0) >> }

\* INSERT INTO agvs ... VALUES of simulation_loop
DefaultAgvs ==
    << AgvRow("AGV-001", "idle", 10000, 0, 0),
       AgvRow("AGV-002", "idle", 10000, 10000, 10000),
       AgvRow("AGV-003", "idle", 10000, -10000, -10000) >>

Loc(id, x, z, occ) == [id |-> id, x_m |-> x, z_m |-> z, occupied |-> occ]
Stock(id, loc)     == [id |-> id, location_id |-> loc]

Stores ==
    { [locations |-> <<Loc("L1", 0, 1000, TRUE), Loc("L2", 3000, 5000, FALSE)>>,
       stock     |-> <<Stock("S1", "L1")>>],
      [locations |-> <<Loc("L1", 0, 1000, TRUE), Loc("L2", 3000, 5000, FALSE)>>,
       stock     |-> <<>>],
      [locations |-> <<Loc("L1", 0, 1000, TRUE), Loc("L2", 3000, 5000, TRUE)>>,
       stock     |-> <<Stock("S1", "L1")>>],
      [locations |-> <<Loc("L1", 0, 1000, TRUE), Loc("L2", 3000, 5000, FALSE)>>,
       stock     |-> <<Stock("S1", "L9")>>] }

\* locals of assign_mission before any invocation
NoCall == [called |-> FALSE, idle_agv |-> 0, stock |-> None, pickup_loc |-> None,
           drop_loc |-> None, mission |-> None, raised |-> FALSE]

Init ==
    /\ variant \in {"rest", "pg"}
    /\ sim_speed \in {1, FastSpeed}
    /\ running = TRUE
    /\ db_agvs \in Fleets
    /\ \E s \in Stores : db_locations = s.locations /\ db_stock = s.stock
    /\ db_missions = <<>>
    /\ agvs = <<>>
    /\ agv_data = <<>>
    /\ pc = "start"
    /\ idx = 0
    /\ dt = 0
    /\ clock = 0
    /\ iter_dur \in {UPDATE_RATE, SlowIter}
    /\ last_time = 0
    /\ last_mission = 0
    /\ update_counter = 0
    /\ am = NoCall
    /\ faults = 0

-----------------------------------------------------------------------------
(* Startup *)

Objects(rows) == IF rows = <<>> THEN <<>> ELSE [i \in 1..Len(rows) |-> NewAgv(rows[i])]

Fault(r) == IF r = "ok" THEN 0 ELSE 1

\* WMSSimulation.init and the head of WMSSimulation.run
RestLoad ==
    /\ pc = "start" /\ variant = "rest"
    /\ \E r \in GetOutcomes :
         /\ faults + Fault(r) <= MaxFaults
         /\ faults' = faults + Fault(r)
         /\ IF r = "raise"
            THEN /\ pc' = "crashed"
                 /\ UNCHANGED <<agvs, agv_data, last_mission>>
            ELSE /\ agv_data' = (IF r = "ok" THEN db_agvs ELSE <<>>)
                 /\ agvs' = Objects(agv_data')
                 /\ last_mission' = clock
                 /\ pc' = "top"
    /\ UNCHANGED <<iter_dur, variant, sim_speed, running, idx, dt, clock, last_time, update_counter,
                   db_agvs, db_missions, db_locations, db_stock, am>>

\* simulation_loop up to the while loop; r = "empty" is init_db_pool
\* returning False, r = "raise" is fetch_agvs raising
PgLoad ==
    /\ pc = "start" /\ variant = "pg"
    /\ \E r \in GetOutcomes :
         /\ faults + Fault(r) <= MaxFaults
         /\ faults' = faults + Fault(r)
         /\ IF r # "ok"
            THEN /\ pc' = (IF r = "raise" THEN "crashed" ELSE "ended")
                 /\ UNCHANGED <<agvs, agv_data, last_time, update_counter, db_agvs>>
            ELSE /\ db_agvs' = (IF db_agvs = <<>> THEN DefaultAgvs ELSE db_agvs)
                 /\ agv_data' = db_agvs'
                 /\ agvs' = Objects(agv_data')
                 /\ last_time' = clock
                 /\ update_counter' = 0
                 /\ pc' = "top"
    /\ UNCHANGED <<iter_dur, variant, sim_speed, running, idx, dt, clock, last_mission,
                   db_missions, db_locations, db_stock, am>>

-----------------------------------------------------------------------------
(* WMSSimulation.run, one loop iteration *)

\* while self.running: start = time.time(); dt = UPDATE_RATE * SIMULATION_SPEED
RestTop ==
    /\ pc = "top" /\ variant = "rest"
    /\ IF running
       THEN /\ dt' = UPDATE_RATE * sim_speed
            /\ idx' = 1
            /\ pc' = (IF agvs = <<>> THEN "dispatch" ELSE "update")
       ELSE /\ pc' = "stopped"
            /\ UNCHANGED <<dt, idx>>
    /\ UNCHANGED <<iter_dur, variant, sim_speed, running, agvs, agv_data, clock, last_time, last_mission,
                   update_counter, db_agvs, db_missions, db_locations, db_stock,
                   am, faults>>

\* the update reads the store only when a loading dwell expires with a mission
ReadsDropoff(a, d) ==
    /\ a.status \notin {"charging", "idle"}
    /\ LET b == IF HasTarget(a) THEN MoveRest(a, d) ELSE a
       IN  /\ b.status = "loading"
           /\ b.loading_timer + d >= DWELL_REST
           /\ b.mission # None

\* agv.update(dt) of the for loop
RestUpdate ==
    /\ pc = "update" /\ variant = "rest"
    /\ \E r \in GetOutcomes :
         /\ r # "ok" => ReadsDropoff(agvs[idx], dt)
         /\ faults + Fault(r) <= MaxFaults
         /\ faults' = faults + Fault(r)
         /\ LET res == UpdateRest(agvs[idx], dt, r, db_locations)
            IN  /\ agvs' = [agvs EXCEPT ![idx] = res.agv]
                /\ pc' = (IF res.raised THEN "crashed" ELSE "save")
    /\ UNCHANGED <<iter_dur, variant, sim_speed, running, agv_data, idx, dt, clock, last_time,
                   last_mission, update_counter, db_agvs, db_missions,
                   db_locations, db_stock, am>>

\* the row written by simulation.py save_to_db
RestRow(a, old) ==
    [old EXCEPT !.x_m = Round(a.x), !.y_m = a.y, !.z_m = Round(a.z),
                !.rotation_rad = Round3(a.rotation),
                !.status = a.status,
                !.battery = Round(a.battery),
                !.speed_mps = IF Truthy(a.target_x) THEN a.speed ELSE 0]

\* PATCH agvs ... filters={'id': self.id}
RestPatch(table, a) ==
    IF table = <<>> THEN <<>>
    ELSE [i \in 1..Len(table) |->
            IF table[i].id = a.id THEN RestRow(a, table[i]) ELSE table[i]]

\* await agv.save_to_db() of the for loop
RestSave ==
    /\ pc = "save" /\ variant = "rest"
    /\ \E r \in GetOutcomes :
         /\ faults + Fault(r) <= MaxFaults
         /\ faults' = faults + Fault(r)
         /\ db_agvs' = (IF r = "ok" THEN RestPatch(db_agvs, agvs[idx]) ELSE db_agvs)
         /\ IF r = "raise"
            THEN pc' = "crashed" /\ idx' = idx
            ELSE /\ idx' = idx + 1
                 /\ pc' = (IF idx < Len(agvs) THEN "update" ELSE "dispatch")
    /\ UNCHANGED <<iter_dur, variant, sim_speed, running, agvs, agv_data, dt, clock, last_time,
                   last_mission, update_counter, db_missions, db_locations,
                   db_stock, am>>

-----------------------------------------------------------------------------
(* Mission dispatcher *)

\* outcome of the POST: answered 200 with the row, answered 201 Created
\* (stored, but supabase_request returns [] for any status other than 200),
\* refused, or an exception
PostOutcomes == {"200", "201", "error", "raise"}

\* FirstIdle that looks at the battery only and not at the status
FirstIdle_AnyStatus(s) ==
    LET c == {i \in 1..Len(s) : s[i].battery > DISPATCH_BAT}
    IN  IF c = {} THEN 0 ELSE CHOOSE i \in c : \A j \in c : i <= j

\* next((agv for agv in self.agvs if agv.status == 'idle' and agv.battery > 30), None)
FirstIdle(s) ==
    LET c == {i \in 1..Len(s) : s[i].status = "idle" /\ s[i].battery > DISPATCH_BAT}
    IN  IF c = {} THEN 0 ELSE CHOOSE i \in c : \A j \in c : i <= j

\* AssignResult that posts the mission before it checks the two locations
AssignResult_PostFirst(r1, r2, r3, p) ==
    LET i    == FirstIdle(agvs)
        none == [agvs |-> agvs, missions |-> db_missions, nfaults |-> 0,
                 am |-> [NoCall EXCEPT !.called = TRUE, !.idle_agv = i]]
    IN
    IF i = 0 THEN none
    ELSE IF r1 = "raise" THEN [none EXCEPT !.nfaults = 1, !.am.raised = TRUE]
    ELSE
    LET stock == IF r1 = "ok" /\ db_stock # <<>> THEN <<db_stock[1]>> ELSE <<>>
        got1  == [none EXCEPT !.nfaults = Fault(r1), !.am.stock = stock]
    IN
    IF stock = <<>> THEN got1
    ELSE IF r2 = "raise" THEN [got1 EXCEPT !.nfaults = @ + 1, !.am.raised = TRUE]
    ELSE
    LET pickup_loc == IF r2 = "ok" THEN LocationById(db_locations, stock[1].location_id)
                                   ELSE None
        got2 == [got1 EXCEPT !.nfaults = @ + Fault(r2), !.am.pickup_loc = pickup_loc]
    IN
    IF r3 = "raise" THEN [got2 EXCEPT !.nfaults = @ + 1, !.am.raised = TRUE]
    ELSE
    LET drop_loc == IF r3 = "ok" THEN FreeLocation(db_locations) ELSE None
        got3 == [got2 EXCEPT !.nfaults = @ + Fault(r3), !.am.drop_loc = drop_loc]
    IN
    IF p = "raise" THEN [got3 EXCEPT !.nfaults = @ + 1, !.am.raised = TRUE]
    ELSE IF p = "error" THEN [got3 EXCEPT !.nfaults = @ + 1]
    ELSE
    LET row == [id |-> Len(db_missions) + 1, agv_id |-> agvs[i].id,
                status |-> "assigned",
                pickup_location_id |-> IF pickup_loc = None THEN "" ELSE Val(pickup_loc).id,
                dropoff_location_id |-> IF drop_loc = None THEN "" ELSE Val(drop_loc).id]
        mission == IF p = "200" THEN Some(row) ELSE None
        posted  == [got3 EXCEPT !.missions = Append(db_missions, row),
                                !.am.mission = mission]
    IN
    IF pickup_loc = None \/ drop_loc = None \/ mission = None THEN posted
    ELSE [posted EXCEPT !.agvs = [agvs EXCEPT ![i] =
              [@ EXCEPT !.mission = mission, !.status = "moving_to_pick",
                        !.target_x = Some(Val(pickup_loc).x_m),
                        !.target_z = Some(Val(pickup_loc).z_m)]]]


\* WMSSimulation.assign_mission: the fleet, the missions table and the locals
\* at the end of the invocation, for the given outcomes of its four requests
AssignResult(r1, r2, r3, p) ==
    LET i    == FirstIdle(agvs)
        none == [agvs |-> agvs, missions |-> db_missions, nfaults |-> 0,
                 am |-> [NoCall EXCEPT !.called = TRUE, !.idle_agv = i]]
    IN
    IF i = 0 THEN none
    ELSE IF r1 = "raise" THEN [none EXCEPT !.nfaults = 1, !.am.raised = TRUE]
    ELSE
    LET stock == IF r1 = "ok" /\ db_stock # <<>> THEN <<db_stock[1]>> ELSE <<>>
        got1  == [none EXCEPT !.nfaults = Fault(r1), !.am.stock = stock]
    IN
    IF stock = <<>> THEN got1
    ELSE IF r2 = "raise" THEN [got1 EXCEPT !.nfaults = @ + 1, !.am.raised = TRUE]
    ELSE
    LET pickup_loc == IF r2 = "ok" THEN LocationById(db_locations, stock[1].location_id)
                                   ELSE None
        got2 == [got1 EXCEPT !.nfaults = @ + Fault(r2), !.am.pickup_loc = pickup_loc]
    IN
    IF r3 = "raise" THEN [got2 EXCEPT !.nfaults = @ + 1, !.am.raised = TRUE]
    ELSE
    LET drop_loc == IF r3 = "ok" THEN FreeLocation(db_locations) ELSE None
        got3 == [got2 EXCEPT !.nfaults = @ + Fault(r3), !.am.drop_loc = drop_loc]
    IN
    IF pickup_loc = None \/ drop_loc = None THEN got3
    ELSE IF p = "raise" THEN [got3 EXCEPT !.nfaults = @ + 1, !.am.raised = TRUE]
    ELSE IF p = "error" THEN [got3 EXCEPT !.nfaults = @ + 1]
    ELSE
    LET row == [id |-> Len(db_missions) + 1, agv_id |-> agvs[i].id,
                status |-> "assigned",
                pickup_location_id |-> Val(pickup_loc).id,
                dropoff_location_id |-> Val(drop_loc).id]
        mission == IF p = "200" THEN Some(row) ELSE None
        posted  == [got3 EXCEPT !.missions = Append(db_missions, row),
                                !.am.mission = mission]
    IN
    IF mission = None THEN posted
    ELSE [posted EXCEPT !.agvs = [agvs EXCEPT ![i] =
              [@ EXCEPT !.mission = mission, !.status = "moving_to_pick",
                        !.target_x = Some(Val(pickup_loc).x_m),
                        !.target_z = Some(Val(pickup_loc).z_m)]]]

\* RestDispatch that posts the mission a second time when the first POST
\* was answered without a row
RestDispatch_Resend ==
    /\ pc = "dispatch" /\ variant = "rest"
    /\ IF clock - last_mission > MISSION_PERIOD
       THEN \E r1 \in GetOutcomes, r2 \in GetOutcomes, r3 \in GetOutcomes,
               p \in PostOutcomes :
              LET res == AssignResult(r1, r2, r3, p)
              IN  /\ faults + res.nfaults <= MaxFaults
                  /\ faults' = faults + res.nfaults
                  /\ agvs' = res.agvs
                  /\ db_missions' =
                       (IF res.missions # db_missions /\ res.am.mission = None
                        THEN Append(res.missions,
                                    [res.missions[Len(res.missions)]
                                       EXCEPT !.id = Len(res.missions) + 1])
                        ELSE res.missions)
                  /\ am' = res.am
                  /\ pc' = (IF res.am.raised THEN "crashed" ELSE "stock")
                  /\ last_mission' = (IF res.am.raised THEN last_mission ELSE clock)
       ELSE /\ pc' = "stock"
            /\ UNCHANGED <<agvs, db_missions, am, last_mission, faults>>
    /\ UNCHANGED <<iter_dur, variant, sim_speed, running, agv_data, idx, dt, clock, last_time,
                   update_counter, db_agvs, db_locations, db_stock>>

\* RestDispatch that invokes assign_mission as soon as 10 s have passed
RestDispatch_AtPeriod ==
    /\ pc = "dispatch" /\ variant = "rest"
    /\ IF clock - last_mission >= MISSION_PERIOD
       THEN \E r1 \in GetOutcomes, r2 \in GetOutcomes, r3 \in GetOutcomes,
               p \in PostOutcomes :
              LET res == AssignResult(r1, r2, r3, p)
              IN  /\ faults + res.nfaults <= MaxFaults
                  /\ faults' = faults + res.nfaults
                  /\ agvs' = res.agvs
                  /\ db_missions' = res.missions
                  /\ am' = res.am
                  /\ pc' = (IF res.am.raised THEN "crashed" ELSE "stock")
                  /\ last_mission' = (IF res.am.raised THEN last_mission ELSE clock)
       ELSE /\ pc' = "stock"
            /\ UNCHANGED <<agvs, db_missions, am, last_mission, faults>>
    /\ UNCHANGED <<iter_dur, variant, sim_speed, running, agv_data, idx, dt, clock, last_time,
                   update_counter, db_agvs, db_locations, db_stock>>

\* "Créer mission toutes les 10s"
RestDispatch ==
    /\ pc = "dispatch" /\ variant = "rest"
    /\ IF clock - last_mission > MISSION_PERIOD
       THEN \E r1 \in GetOutcomes, r2 \in GetOutcomes, r3 \in GetOutcomes,
               p \in PostOutcomes :
              LET res == AssignResult(r1, r2, r3, p)
              IN  /\ faults + res.nfaults <= MaxFaults
                  /\ faults' = faults + res.nfaults
                  /\ agvs' = res.agvs
                  /\ db_missions' = res.missions
                  /\ am' = res.am
                  /\ pc' = (IF res.am.raised THEN "crashed" ELSE "stock")
                  /\ last_mission' = (IF res.am.raised THEN last_mission ELSE clock)
       ELSE /\ pc' = "stock"
            /\ UNCHANGED <<agvs, db_missions, am, last_mission, faults>>
    /\ UNCHANGED <<iter_dur, variant, sim_speed, running, agv_data, idx, dt, clock, last_time,
                   update_counter, db_agvs, db_locations, db_stock>>

\* WMSSimulation.update_stock: with probability 0.05 reads the stock items
\* and patches fill_level and updated_at of one of them; neither column is
\* read by the engine and neither is kept in db_stock
RestStock ==
    /\ pc = "stock" /\ variant = "rest"
    /\ \/ /\ pc' = "sleep"
          /\ UNCHANGED faults
       \/ \E r \in {"ok", "raise"} :
            /\ faults + Fault(r) <= MaxFaults
            /\ faults' = faults + Fault(r)
            /\ pc' = (IF r = "raise" THEN "crashed" ELSE "sleep")
    /\ UNCHANGED <<iter_dur, variant, sim_speed, running, agvs, agv_data, idx, dt, clock, last_time,
                   last_mission, update_counter, db_agvs, db_missions,
                   db_locations, db_stock, am>>

\* await asyncio.sleep(max(0, UPDATE_RATE - elapsed)): the iteration lasted
\* the nominal period, or longer when the store is slow
RestSleep ==
    /\ pc = "sleep" /\ variant = "rest"
    /\ clock + iter_dur <= MaxClock
    /\ clock' = clock + iter_dur
    /\ pc' = "top"
    /\ UNCHANGED <<iter_dur, variant, sim_speed, running, agvs, agv_data, idx, dt, last_time,
                   last_mission, update_counter, db_agvs, db_missions,
                   db_locations, db_stock, am, faults>>

-----------------------------------------------------------------------------
(* simulation_loop, one loop iteration *)

\* dt = (current_time - last_time) * SIMULATION_SPEED
PgTop ==
    /\ pc = "top" /\ variant = "pg"
    /\ dt' = (clock - last_time) * sim_speed
    /\ last_time' = clock
    /\ idx' = 1
    /\ pc' = (IF agvs = <<>> THEN "count" ELSE "update")
    /\ UNCHANGED <<iter_dur, variant, sim_speed, running, agvs, agv_data, clock, last_mission,
                   update_counter, db_agvs, db_missions, db_locations, db_stock,
                   am, faults>>

\* agv.update(dt) of the first for loop
PgUpdate ==
    /\ pc = "update" /\ variant = "pg"
    /\ agvs' = [agvs EXCEPT ![idx] = UpdatePg(agvs[idx], dt)]
    /\ idx' = idx + 1
    /\ pc' = (IF idx < Len(agvs) THEN "update" ELSE "count")
    /\ UNCHANGED <<iter_dur, variant, sim_speed, running, agv_data, dt, clock, last_time, last_mission,
                   update_counter, db_agvs, db_missions, db_locations, db_stock,
                   am, faults>>

\* PgCount that flushes only once the counter has passed 10
PgCount_Late ==
    /\ pc = "count" /\ variant = "pg"
    /\ IF update_counter + 1 > FLUSH_EVERY
       THEN IF agvs = <<>>
            THEN update_counter' = 0 /\ pc' = "sleep" /\ idx' = idx
            ELSE update_counter' = update_counter + 1 /\ pc' = "flush" /\ idx' = 1
       ELSE update_counter' = update_counter + 1 /\ pc' = "sleep" /\ idx' = idx
    /\ UNCHANGED <<iter_dur, variant, sim_speed, running, agvs, agv_data, dt, clock, last_time,
                   last_mission, db_agvs, db_missions, db_locations, db_stock,
                   am, faults>>

\* update_counter += 1; if update_counter >= 10
PgCount ==
    /\ pc = "count" /\ variant = "pg"
    /\ IF update_counter + 1 >= FLUSH_EVERY
       THEN IF agvs = <<>>
            THEN update_counter' = 0 /\ pc' = "sleep" /\ idx' = idx
            ELSE update_counter' = update_counter + 1 /\ pc' = "flush" /\ idx' = 1
       ELSE update_counter' = update_counter + 1 /\ pc' = "sleep" /\ idx' = idx
    /\ UNCHANGED <<iter_dur, variant, sim_speed, running, agvs, agv_data, dt, clock, last_time,
                   last_mission, db_agvs, db_missions, db_locations, db_stock,
                   am, faults>>

\* the row written by simulation_postgres.py save_to_db
PgRow(a, old) ==
    [old EXCEPT !.x_m = a.x, !.y_m = a.y, !.z_m = a.z,
                !.rotation_rad = a.rotation,
                !.status = a.status,
                !.battery = a.battery,
                !.speed_mps = IF a.status \in {"moving_to_pickup", "moving_to_dropoff"}
                              THEN a.speed ELSE 0]

\* update_agv: UPDATE agvs SET ... WHERE id = $8
PgPatch(table, a) ==
    IF table = <<>> THEN <<>>
    ELSE [i \in 1..Len(table) |->
            IF table[i].id = a.id THEN PgRow(a, table[i]) ELSE table[i]]

\* await agv.save_to_db() of the flush loop, then update_counter = 0;
\* an exception leaves the loop through except/finally
PgFlush ==
    /\ pc = "flush" /\ variant = "pg"
    /\ \E r \in {"ok", "raise"} :
         /\ faults + Fault(r) <= MaxFaults
         /\ faults' = faults + Fault(r)
         /\ IF r = "raise"
            THEN pc' = "ended" /\ UNCHANGED <<db_agvs, idx, update_counter>>
            ELSE /\ db_agvs' = PgPatch(db_agvs, agvs[idx])
                 /\ idx' = idx + 1
                 /\ IF idx < Len(agvs)
                    THEN pc' = "flush" /\ UNCHANGED update_counter
                    ELSE pc' = "sleep" /\ update_counter' = 0
    /\ UNCHANGED <<iter_dur, variant, sim_speed, running, agvs, agv_data, dt, clock, last_time,
                   last_mission, db_missions, db_locations, db_stock, am>>

\* await asyncio.sleep(UPDATE_RATE), plus the time the iteration took
PgSleep ==
    /\ pc = "sleep" /\ variant = "pg"
    /\ clock + iter_dur <= MaxClock
    /\ clock' = clock + iter_dur
    /\ pc' = "top"
    /\ UNCHANGED <<iter_dur, variant, sim_speed, running, agvs, agv_data, idx, dt, last_time,
                   last_mission, update_counter, db_agvs, db_missions,
                   db_locations, db_stock, am, faults>>

-----------------------------------------------------------------------------

\* the owner of the WMSSimulation object asks the loop to stop; the flag is
\* read by the while condition of run() only
Shutdown ==
    /\ variant = "rest" /\ running
    /\ pc \notin {"start", "crashed", "stopped"}
    /\ running' = FALSE
    /\ UNCHANGED <<iter_dur, variant, sim_speed, agvs, agv_data, pc, idx, dt, clock,
                   last_time, last_mission, update_counter, db_agvs, db_missions,
                   db_locations, db_stock, am, faults>>

\* simulation_loop has no flag: it is stopped by Ctrl+C, which cancels the
\* coroutine at the await it is suspended in, a write of the flush loop or
\* the sleep; neither except clause applies to the cancellation and finally
\* closes the pool
PgInterrupt ==
    /\ variant = "pg"
    /\ pc \in {"flush", "sleep"}
    /\ pc' = "stopped"
    /\ UNCHANGED <<iter_dur, variant, sim_speed, running, agvs, agv_data, idx, dt, clock,
                   last_time, last_mission, update_counter, db_agvs, db_missions,
                   db_locations, db_stock, am, faults>>

Next ==
    \/ RestLoad \/ RestTop \/ RestUpdate \/ RestSave \/ RestDispatch
    \/ RestStock \/ RestSleep \/ Shutdown
    \/ PgLoad \/ PgTop \/ PgUpdate \/ PgCount \/ PgFlush \/ PgSleep \/ PgInterrupt

Spec == Init /\ [][Next]_vars

-----------------------------------------------------------------------------
(* Crash and restart: the process that ended on an exception is started     *)
(* again against the store as the crash left it. Nothing of the old process *)
(* survives: the fleet is rebuilt by __init__ from the rows read.           *)

\* a new process: WMSSimulation.init and the head of run, or simulation_loop
\* up to the while loop, with the store answering
Restart ==
    /\ pc \in {"crashed", "ended"}
    /\ db_agvs' = (IF variant = "pg" /\ db_agvs = <<>> THEN DefaultAgvs ELSE db_agvs)
    /\ agv_data' = db_agvs'
    /\ agvs' = Objects(agv_data')
    /\ running' = TRUE
    /\ last_mission' = clock
    /\ last_time' = clock
    /\ update_counter' = 0
    /\ idx' = 0
    /\ dt' = 0
    /\ am' = NoCall
    /\ pc' = "top"
    /\ UNCHANGED <<iter_dur, variant, sim_speed, clock, db_missions, db_locations,
                   db_stock, faults>>

\* fleets whose persisted rows satisfy the data-model invariants
RestartFleets ==
    { <<>>,
      << AgvRow("AGV-001", "idle", 10000, 0, 0) >> }

InitRestart ==
    /\ Init
    /\ sim_speed = 1
    /\ db_agvs \in RestartFleets
    /\ db_stock = <<Stock("S1", "L1")>>

NextRestart ==
    \/ RestLoad \/ RestTop \/ RestUpdate \/ RestSave \/ RestDispatch
    \/ RestStock \/ RestSleep
    \/ PgLoad \/ PgTop \/ PgUpdate \/ PgCount \/ PgFlush \/ PgSleep
    \/ Restart

SpecRestart == InitRestart /\ [][NextRestart]_vars

-----------------------------------------------------------------------------
(* AGVSimulator.update as a function of an arbitrary vehicle state *)

UnitStatuses ==
    {"idle", "charging", "loading", "unloading", "error",
     "moving_to_pick", "moving_to_drop", "moving_to_pickup", "moving_to_dropoff"}

\* position z (x is 0) and target of the vehicle
UnitPlaces ==
    ({0, 900, 1000} \X {<<None, None>>, <<Some(0), Some(1000)>>, <<Some(0), Some(10000)>>})
    \cup {<<0, <<Some(600), Some(800)>>>>}

UnitMission == [id |-> 1, agv_id |-> "AGV-001", status |-> "assigned",
                pickup_location_id |-> "L1", dropoff_location_id |-> "L2"]

UnitDts == {0, 1, 5, 10}

InitUpdate ==
    /\ variant \in {"rest", "pg"}
    /\ \E st \in UnitStatuses, bat \in {0, 1900, 1999, 2000, 7999, BAT_MAX},
          pl \in UnitPlaces,
          tm \in {0, DWELL_REST - 1, DWELL_PG},
          ms \in {None, Some(UnitMission)} :
         agvs = << [NewAgv(AgvRow("AGV-001", st, bat, 0, pl[1]))
                      EXCEPT !.target_x = pl[2][1], !.target_z = pl[2][2],
                             !.loading_timer = tm, !.mission = ms] >>
    /\ db_locations = <<Loc("L1", 0, 1000, TRUE), Loc("L2", 3000, 5000, FALSE)>>
    /\ db_stock = <<>>
    /\ db_missions = <<>>
    /\ db_agvs = <<>>
    /\ agv_data = <<>>
    /\ sim_speed = 1
    /\ running = TRUE
    /\ iter_dur = UPDATE_RATE
    /\ pc = "unit"
    /\ idx = 1
    /\ dt = 0
    /\ clock = 0
    /\ last_time = 0
    /\ last_mission = 0
    /\ update_counter = 0
    /\ am = NoCall
    /\ faults = 0

\* one call agv.update(d)
UnitUpdate ==
    /\ pc = "unit"
    /\ \E d \in UnitDts, r \in GetOutcomes :
         /\ dt' = d
         /\ r # "ok" => (variant = "rest" /\ ReadsDropoff(agvs[1], d))
         /\ IF variant = "rest"
            THEN LET res == UpdateRest(agvs[1], d, r, db_locations)
                 IN  /\ agvs' = <<res.agv>>
                     /\ pc' = (IF res.raised THEN "raised" ELSE "updated")
            ELSE /\ agvs' = <<UpdatePg(agvs[1], d)>>
                 /\ pc' = "updated"
    /\ UNCHANGED <<iter_dur, variant, sim_speed, running, agv_data, idx, clock, last_time, last_mission,
                   update_counter, db_agvs, db_missions, db_locations, db_stock,
                   am, faults>>

SpecUpdate == InitUpdate /\ [][UnitUpdate]_vars

-----------------------------------------------------------------------------
(* The fixed-point arithmetic is exact on every state the model visits:     *)
(* the distance to the target is a whole number of position units and the   *)
(* step along each axis divides evenly.                                     *)

-----------------------------------------------------------------------------
(* The loop run without end. The engine sees the wall clock only through    *)
(* the differences clock - last_time and clock - last_mission, so the sleep *)
(* moves the two reference points back instead of the clock forward and the *)
(* state space stays finite. The store answers every request and holds no   *)
(* stock, so the dispatcher runs every period and finds nothing to assign.  *)

\* the vehicles the liveness properties follow: one per recognized status as
\* loaded from the store, and one that was just given a mission
LiveAgvs(v) ==
    LET moving == IF v = "rest" THEN {"moving_to_pick", "moving_to_drop"}
                                ELSE {"moving_to_pickup", "moving_to_dropoff"}
        loaded == {NewAgv(AgvRow("AGV-001", st, 5000, 0, 0)) :
                     st \in {"idle", "charging", "loading", "unloading"} \cup moving}
        bound  == [NewAgv(AgvRow("AGV-001", "idle", 5000, 0, 0))
                     EXCEPT !.status = IF v = "rest" THEN "moving_to_pick"
                                                     ELSE "moving_to_pickup",
                            !.mission = Some(UnitMission),
                            !.target_x = Some(0), !.target_z = Some(1000)]
    IN  loaded \cup {bound}

InitLive ==
    /\ variant \in {"rest", "pg"}
    /\ sim_speed \in {1, FastSpeed}
    /\ running = TRUE
    /\ iter_dur = SlowIter
    /\ \E a \in LiveAgvs(variant) :
         /\ agvs = <<a>>
         /\ db_agvs = <<AgvRow("AGV-001", a.status, 5000, 0, 0)>>
    /\ agv_data = db_agvs
    /\ db_locations = <<Loc("L1", 0, 1000, TRUE), Loc("L2", 3000, 5000, FALSE)>>
    /\ db_stock = <<>>
    /\ db_missions = <<>>
    /\ pc = "top"
    /\ idx = 1
    /\ dt = 0
    /\ clock = 0
    /\ last_time = 0
    /\ last_mission = 0
    /\ update_counter = 0
    /\ am = NoCall
    /\ faults = MaxFaults

\* the sleep at the end of an iteration, of either variant
LiveSleep ==
    /\ pc = "sleep"
    /\ pc' = "top"
    /\ IF variant = "pg"
       THEN last_time' = clock - iter_dur /\ UNCHANGED last_mission
       ELSE last_mission' = last_mission - iter_dur /\ UNCHANGED last_time
    /\ UNCHANGED <<iter_dur, variant, sim_speed, running, agvs, agv_data, idx, dt, clock,
                   update_counter, db_agvs, db_missions, db_locations, db_stock,
                   am, faults>>

NextLive ==
    \/ RestTop \/ RestUpdate \/ RestSave \/ RestDispatch \/ RestStock
    \/ PgTop \/ PgUpdate \/ PgCount \/ PgFlush
    \/ LiveSleep

\* the loop is one coroutine that the event loop always resumes
SpecLive == InitLive /\ [][NextLive]_vars /\ WF_vars(NextLive)

ExactStep(a, d) ==
    (a.status \notin {"idle", "charging"} /\ HasTarget(a)) =>
        LET dx   == Val(a.target_x) - a.x
            dz   == Val(a.target_z) - a.z
            dist == Dist(dx, dz)
            m    == IF variant = "pg" THEN Min(a.speed * d, dist) ELSE a.speed * d
        IN  /\ dist * dist = dx * dx + dz * dz
            /\ dist >= EPS => ((dx * m) % dist = 0 /\ (dz * m) % dist = 0)

ArithmeticExact ==
    /\ pc = "update" => ExactStep(agvs[idx], dt)
    /\ pc = "unit" => \A d \in UnitDts : ExactStep(agvs[1], d)

-----------------------------------------------------------------------------
(* Vocabulary of the properties *)

\* the two moving statuses of the running variant
Moving ==
    IF variant = "rest" THEN {"moving_to_pick", "moving_to_drop"}
                        ELSE {"moving_to_pickup", "moving_to_dropoff"}

Terminal == {"completed", "cancelled"}

Fleet == 1..Len(agvs)

\* open missions of the store bound to vehicle id v
OpenMissions(v) ==
    {k \in 1..Len(db_missions) :
        db_missions[k].agv_id = v /\ db_missions[k].status \notin Terminal}

\* squared planar distance between two points
Dist2(x1, z1, x2, z2) == (x2 - x1) * (x2 - x1) + (z2 - z1) * (z2 - z1)

-----------------------------------------------------------------------------
(* C1: every vehicle has at most one mission record in the store whose     *)
(* status is outside {completed, cancelled}.                               *)
C1_AtMostOneOpenMission ==
    \A i \in 1..Len(db_agvs) : Cardinality(OpenMissions(db_agvs[i].id)) <= 1

(* C2: in the step in which a vehicle's unloading dwell expires            *)
(* (unloading -> idle), the mission it carried is completed or cancelled   *)
(* in the store.                                                           *)
C2_MissionTerminalAtUnload ==
    [][\A i \in Fleet :
         (agvs[i].status = "unloading" /\ agvs'[i].status = "idle"
            /\ agvs[i].mission # None)
         => \E k \in 1..Len(db_missions') :
              /\ db_missions'[k].id = Val(agvs[i].mission).id
              /\ db_missions'[k].status \in Terminal]_vars

(* C3: a vehicle loaded with a battery in [0,100] has its battery in       *)
(* [0,100] in every reachable state.                                       *)
C3_BatteryInRange ==
    \A i \in Fleet :
        agv_data[i].battery \in 0..BAT_MAX => agvs[i].battery \in 0..BAT_MAX

\* a vehicle loaded with charge left whose idle drain was cut off at 0
C3_Witness ==
    /\ pc \in {"save", "update", "count"}
    /\ \E i \in Fleet : agvs[i].battery = 0 /\ agv_data[i].battery > 0

(* C4: a vehicle holds a target exactly when its status is one of the two  *)
(* moving statuses.                                                        *)
C4_TargetIffMoving ==
    \A i \in Fleet : HasTarget(agvs[i]) <=> agvs[i].status \in Moving

(* C5: every vehicle row written by save_to_db has speed_mps > 0 exactly   *)
(* when its status is one of the two moving statuses.                      *)
C5_SpeedIffMoving ==
    [][\A i \in 1..Len(db_agvs) :
         (Len(db_agvs') = Len(db_agvs) /\ db_agvs'[i] # db_agvs[i])
         => (db_agvs'[i].speed_mps > 0 <=> db_agvs'[i].status \in Moving)]_vars

(* C6: one update of a moving vehicle with a target travels at most the    *)
(* remaining distance, and the remaining distance does not increase.       *)
C6_NoOvershoot ==
    [][\A i \in Fleet :
         (agvs[i].status \in Moving /\ HasTarget(agvs[i]))
         => LET tx == Val(agvs[i].target_x)
                tz == Val(agvs[i].target_z)
                before == Dist2(agvs[i].x, agvs[i].z, tx, tz)
            IN  /\ Dist2(agvs[i].x, agvs[i].z, agvs'[i].x, agvs'[i].z) <= before
                /\ Dist2(agvs'[i].x, agvs'[i].z, tx, tz) <= before]_vars

(* C7: update(0) leaves every field of the vehicle unchanged.              *)
C7_ZeroDtNoChange ==
    [][(pc = "unit" /\ pc' # "unit" /\ dt' = 0) => agvs' = agvs]_vars

(* C8: the update in which the unloading dwell expires leaves the vehicle  *)
(* idle with target and mission reference cleared.                         *)
C8_UnloadEndsIdle ==
    [][\A i \in Fleet :
         (agvs[i].status = "unloading" /\ agvs'[i].status # "unloading")
         => /\ agvs'[i].status = "idle"
            /\ agvs'[i].target_x = None /\ agvs'[i].target_z = None
            /\ agvs'[i].mission = None]_vars

\* a dispatched vehicle that went pickup -> loading -> dropoff -> unloading
\* and is idle at the dropoff location
C8_Witness ==
    \E i \in Fleet :
        /\ agvs[i].status = "idle" /\ agvs[i].mission = None
        /\ agvs[i].target_x = None /\ agvs[i].target_z = None
        /\ \E k \in 1..Len(db_missions) :
             /\ db_missions[k].agv_id = agvs[i].id
             /\ LET d == LocationById(db_locations, db_missions[k].dropoff_location_id)
                IN  d # None /\ agvs[i].x = Val(d).x_m /\ agvs[i].z = Val(d).z_m

\* some precondition of a dispatch was missing in the invocation just made
Missing(a) ==
    a.called /\ (a.idle_agv = 0 \/ a.stock = None \/ a.pickup_loc = None
                 \/ a.drop_loc = None)

(* C9: an assign_mission invocation that misses an eligible vehicle, a     *)
(* stock item, the pickup location or a free dropoff location changes      *)
(* neither the store nor any vehicle's status, target or mission.          *)
C9_MissingIsNoOp ==
    [][(pc = "dispatch" /\ clock - last_mission > MISSION_PERIOD /\ Missing(am'))
       => /\ db_missions' = db_missions /\ db_agvs' = db_agvs
          /\ db_stock' = db_stock /\ db_locations' = db_locations
          /\ \A i \in Fleet :
               /\ agvs'[i].status = agvs[i].status
               /\ agvs'[i].target_x = agvs[i].target_x
               /\ agvs'[i].target_z = agvs[i].target_z
               /\ agvs'[i].mission = agvs[i].mission]_vars

\* an invocation that found a vehicle, a stock item and its location, but
\* no free dropoff location
C9_Witness ==
    /\ pc = "stock"
    /\ am.called /\ am.idle_agv # 0 /\ am.stock # None
    /\ am.pickup_loc # None /\ am.drop_loc = None

(* C10: an invocation that creates a mission record leaves it assigned to  *)
(* the chosen vehicle, and that vehicle bound to it, moving to the pickup  *)
(* location.                                                               *)
C10_CreatedMissionIsBound ==
    [][Len(db_missions') > Len(db_missions)
       => LET m == db_missions'[Len(db_missions')]
              pick == LocationById(db_locations, m.pickup_location_id)
          IN  /\ m.status = "assigned"
              /\ \E i \in Fleet :
                   /\ agvs'[i].id = m.agv_id
                   /\ agvs'[i].mission = Some(m)
                   /\ agvs'[i].status = "moving_to_pick"
                   /\ agvs'[i].target_x = Some(Val(pick).x_m)
                   /\ agvs'[i].target_z = Some(Val(pick).z_m)]_vars

\* the vehicle assign_mission would select in fleet s: idle, battery above 30
Eligible(s, i) == s[i].status = "idle" /\ s[i].battery > DISPATCH_BAT

(* C11: a vehicle is given a mission only if, when assign_mission ran, it   *)
(* was idle with a battery strictly above 30 and no vehicle before it in    *)
(* the fleet's load order was idle with a battery above 30; a charging,     *)
(* moving, loading or unloading vehicle and an idle one at 30 or below      *)
(* never receive a mission.                                                 *)
C11_SelectsFirstEligible ==
    [][\A i \in Fleet :
         (i <= Len(agvs') /\ agvs[i].mission = None /\ agvs'[i].mission # None) =>
             /\ Eligible(agvs, i)
             /\ \A j \in 1..(i - 1) : ~Eligible(agvs, j)
             /\ am'.called /\ am'.idle_agv = i]_vars

\* the dispatcher passed over the first vehicle and bound the second
C11_Witness ==
    /\ pc = "stock"
    /\ am.called /\ am.idle_agv = 2
    /\ agvs[2].mission # None
    /\ agvs[1].mission = None

(* C12: one invocation of assign_mission creates no mission record or       *)
(* exactly one: every step leaves the missions table as it was or appends   *)
(* a single record to it.                                                   *)
C12_ZeroOrOneMission ==
    [][\/ db_missions' = db_missions
       \/ /\ Len(db_missions') = Len(db_missions) + 1
          /\ SubSeq(db_missions', 1, Len(db_missions)) = db_missions
          /\ am'.called]_vars

\* an invocation that created its one record, after an earlier one did
C12_Witness ==
    /\ pc = "stock"
    /\ am.called /\ am.idle_agv # 0
    /\ Len(db_missions) = 2

\* the vehicle is moving towards a target that is further away than one
\* step of d and not within the arrival distance
FarFromTarget(a, d) ==
    /\ a.status \in Moving /\ HasTarget(a)
    /\ LET dist == Dist(Val(a.target_x) - a.x, Val(a.target_z) - a.z)
       IN  dist > a.speed * d /\ dist >= EPS

(* C13: one update(dt) of a moving vehicle whose remaining distance is      *)
(* greater than speed*dt and not below the arrival distance moves it by     *)
(* exactly speed*dt along the direction to the target, leaves status and    *)
(* target unchanged and reduces the battery by 0.5*dt, floored at 0, in     *)
(* both variants.                                                           *)
C13_StepTowardsTarget ==
    [][(pc = "unit" /\ pc' # "unit" /\ FarFromTarget(agvs[1], dt')) =>
         LET a    == agvs[1]
             b    == agvs'[1]
             dx   == Val(a.target_x) - a.x
             dz   == Val(a.target_z) - a.z
             dist == Dist(dx, dz)
             m    == a.speed * dt'
         IN  /\ (b.x - a.x) * dist = dx * m
             /\ (b.z - a.z) * dist = dz * m
             /\ Dist2(a.x, a.z, b.x, b.z) = m * m
             /\ b.status = a.status
             /\ b.target_x = a.target_x /\ b.target_z = a.target_z
             /\ b.battery = Max(0, a.battery - dt' * MOVE_DRAIN)]_vars

\* Scenario A: from (0, 0) towards (0, 10) at 2 m/s, after update(1.0) the
\* vehicle is at (0, 2), still moving to the same target
C13_Witness ==
    /\ pc = "updated" /\ dt = 10
    /\ agvs[1].status \in Moving
    /\ agvs[1].x = 0 /\ agvs[1].z = 2000
    /\ agvs[1].target_x = Some(0) /\ agvs[1].target_z = Some(10000)
    /\ agvs[1].battery = 7999 - 10 * MOVE_DRAIN

\* the vehicle is moving, no dwell is in progress and its target is within
\* the arrival distance
NearTarget(a) ==
    /\ a.status \in Moving /\ HasTarget(a)
    /\ a.loading_timer = 0
    /\ Dist(Val(a.target_x) - a.x, Val(a.target_z) - a.z) < EPS

(* C14: one update of a moving vehicle whose remaining distance is below    *)
(* the arrival distance 0.2 m puts the vehicle exactly on the target,       *)
(* clears the target and turns moving-to-pickup into loading and            *)
(* moving-to-dropoff into unloading, in both variants.                      *)
C14_ArrivalWithinEpsilon ==
    [][(pc = "unit" /\ pc' = "updated" /\ NearTarget(agvs[1])) =>
         LET a == agvs[1]
             b == agvs'[1]
         IN  /\ b.x = Val(a.target_x) /\ b.z = Val(a.target_z)
             /\ b.target_x = None /\ b.target_z = None
             /\ b.status = (IF a.status \in {"moving_to_pick", "moving_to_pickup"}
                            THEN "loading" ELSE "unloading")]_vars

(* C15: one update(dt) of an idle vehicle reduces the battery by 0.1*dt,    *)
(* floored at 0; the vehicle becomes charging with the depot (-20, -10) as  *)
(* target exactly when the battery after the drain is below 20, and stays   *)
(* idle with its target untouched otherwise, in both variants.              *)
C15_IdleDrainAndDepot ==
    [][(pc = "unit" /\ pc' # "unit" /\ agvs[1].status = "idle") =>
         LET a == agvs[1]
             b == agvs'[1]
         IN  /\ b.battery = Max(0, a.battery - dt' * IDLE_DRAIN)
             /\ b.x = a.x /\ b.z = a.z
             /\ IF b.battery < LOW_BAT
                THEN /\ b.status = "charging"
                     /\ b.target_x = Some(DEPOT_X) /\ b.target_z = Some(DEPOT_Z)
                ELSE /\ b.status = "idle"
                     /\ b.target_x = a.target_x /\ b.target_z = a.target_z]_vars

\* Scenario C: idle at 19 %, after update(1.0) the vehicle is at 18.9 %,
\* charging, with the depot as target
C15_Witness ==
    /\ pc = "updated" /\ dt = 10
    /\ agvs[1].status = "charging"
    /\ agvs[1].battery = 1890
    /\ agvs[1].target_x = Some(DEPOT_X) /\ agvs[1].target_z = Some(DEPOT_Z)

\* the vehicle dwells where it arrived: loading or unloading, and a target,
\* if it still has one, is the point it stands on
Dwelling(a) ==
    /\ a.status \in {"loading", "unloading"}
    /\ HasTarget(a) => (a.x = Val(a.target_x) /\ a.z = Val(a.target_z))

\* the dwell timer of vehicle a has run out once update(d) has counted d
DwellExpired(a, d) ==
    IF variant = "rest" THEN a.loading_timer + d >= DWELL_REST
                        ELSE a.loading_timer - d <= 0

(* C16: a vehicle in loading or unloading stays in that status until the    *)
(* simulated time accumulated by its updates reaches the dwell duration     *)
(* (1.5 s counted up in simulation.py, 3.0 s counted down in                *)
(* simulation_postgres.py): no update takes it out of the status before     *)
(* the dwell timer has expired.                                             *)
C16_DwellHolds ==
    [][(pc = "unit" /\ pc' # "unit" /\ Dwelling(agvs[1])
        /\ agvs'[1].status # agvs[1].status) => DwellExpired(agvs[1], dt')]_vars

\* the dropoff location of the mission vehicle a carries, in the store
Dropoff(a) == Val(LocationById(db_locations, Val(a.mission).dropoff_location_id))

(* C17: when the dwell of a loading vehicle that carries a mission expires, *)
(* the update leaves the vehicle moving to the dropoff, with the            *)
(* coordinates of the mission's dropoff location as its target, in both     *)
(* variants.                                                                *)
C17_LoadingEndsMovingToDropoff ==
    [][(pc = "unit" /\ pc' = "updated" /\ Dwelling(agvs[1])
        /\ agvs[1].status = "loading" /\ agvs[1].mission # None
        /\ DwellExpired(agvs[1], dt')) =>
         /\ agvs'[1].status = (IF variant = "rest" THEN "moving_to_drop"
                                                   ELSE "moving_to_dropoff")
         /\ agvs'[1].target_x = Some(Dropoff(agvs[1]).x_m)
         /\ agvs'[1].target_z = Some(Dropoff(agvs[1]).z_m)]_vars

(* C18: no recognized status is terminal or stuck: while the loop keeps     *)
(* ticking with dt > 0, a vehicle in any recognized status, including one   *)
(* loaded from the store in a moving, loading or unloading status, always   *)
(* eventually changes status again.                                         *)
C18_StatusChangesAgain ==
    []<><<agvs'[1].status # agvs[1].status>>_vars

\* the loop has ended: an exception left run(), or simulation_loop returned
LoopEnded(p) == p \in {"crashed", "ended"}

(* C19: a failed write of a vehicle row (save_to_db raising) does not end   *)
(* the loop, in either variant: after a save_to_db step the loop is still   *)
(* running, so that later ticks advance every vehicle and write the row     *)
(* again.                                                                   *)
C19_WriteFailureNotFatal ==
    [][(pc \in {"save", "flush"}) => ~LoopEnded(pc')]_vars

(* C20: an error raised by a store read made for a vehicle, in update (the  *)
(* dropoff read when a loading dwell expires) or in assign_mission, does    *)
(* not end the loop of simulation.py: after an update or assign_mission     *)
(* step the loop is still running and goes on to the other vehicles.        *)
C20_ReadFailureNotFatal ==
    [][(variant = "rest" /\ pc \in {"update", "dispatch"}) => ~LoopEnded(pc')]_vars

\* the statuses the update of the running variant has a branch for
Recognized == {"idle", "charging", "loading", "unloading"} \cup Moving

(* C21: a vehicle loaded from the store with a status outside the           *)
(* recognized set is frozen: no step changes its position, heading,         *)
(* battery, status or target, its update raises no error, and the other     *)
(* vehicles of the fleet are advanced, in both variants.                    *)
C21_UnrecognizedIsFrozen ==
    [][\A i \in Fleet :
         (i <= Len(agvs') /\ agvs[i].status \notin Recognized) =>
             /\ agvs'[i].x = agvs[i].x /\ agvs'[i].z = agvs[i].z
             /\ agvs'[i].rotation = agvs[i].rotation
             /\ agvs'[i].battery = agvs[i].battery
             /\ agvs'[i].status = agvs[i].status
             /\ agvs'[i].target_x = agvs[i].target_x
             /\ agvs'[i].target_z = agvs[i].target_z
             /\ (pc = "update" /\ idx = i) => ~LoopEnded(pc')]_vars

\* the 'error' vehicle has been updated, and the idle vehicle after it has
\* been drained in the same run
C21_Witness ==
    /\ pc = "sleep"
    /\ Len(agvs) = 2
    /\ agvs[1].status = "error" /\ agvs[1].battery = 5000
    /\ agvs[2].status = "idle" /\ agvs[2].battery < BAT_MAX

(* C22: whatever battery a vehicle was loaded with, negative or above 100   *)
(* included, and whatever its status, its battery is inside [0,100] after   *)
(* its first update, and so after every update, in both variants.           *)
C22_BatteryClampedByUpdate ==
    [][\A i \in Fleet :
         (pc = "update" /\ idx = i /\ ~LoopEnded(pc')) =>
             agvs'[i].battery \in 0..BAT_MAX]_vars

\* the vehicle is moving, no dwell is in progress, and its target is within
\* one step of d but not within the arrival distance
ReachableTarget(a, d) ==
    /\ a.status \in Moving /\ HasTarget(a)
    /\ a.loading_timer = 0
    /\ LET dist == Dist(Val(a.target_x) - a.x, Val(a.target_z) - a.z)
       IN  dist <= a.speed * d /\ dist >= EPS

(* C23: when the remaining distance of a moving vehicle is at most          *)
(* speed*dt, that one update puts the vehicle exactly on the target,        *)
(* clears the target and makes the transition to loading or unloading in    *)
(* the same tick, even when the distance is not below the arrival distance, *)
(* in both variants.                                                        *)
C23_ArrivalWithinStep ==
    [][(pc = "unit" /\ pc' = "updated" /\ ReachableTarget(agvs[1], dt')) =>
         LET a == agvs[1]
             b == agvs'[1]
         IN  /\ b.x = Val(a.target_x) /\ b.z = Val(a.target_z)
             /\ b.target_x = None /\ b.target_z = None
             /\ b.status = (IF a.status \in {"moving_to_pick", "moving_to_pickup"}
                            THEN "loading" ELSE "unloading")]_vars

(* C24: one update(dt) of a charging vehicle raises the battery by 10*dt,   *)
(* capped at 100, and makes the vehicle idle exactly when the battery after *)
(* the increase is at least 80; so while the loop keeps ticking every       *)
(* charging vehicle eventually becomes idle, and is then idle with a        *)
(* battery of at least 80.                                                  *)
C24_ChargingEndsIdle ==
    /\ [][(pc = "update" /\ agvs[idx].status = "charging") =>
            LET b == Min(BAT_MAX, agvs[idx].battery + dt * CHARGE_RATE)
            IN  /\ agvs'[idx].battery = b
                /\ agvs'[idx].status = (IF b >= CHARGE_DONE THEN "idle" ELSE "charging")]_vars
    /\ (agvs[1].status = "charging")
         ~> (agvs[1].status = "idle" /\ agvs[1].battery >= CHARGE_DONE)

\* a vehicle that ran down while idle, went to charge and is idle again
C24_Witness ==
    /\ pc \in {"save", "count"}
    /\ agvs[1].status = "idle"
    /\ agvs[1].battery >= CHARGE_DONE /\ agvs[1].battery < CHARGE_DONE + dt * CHARGE_RATE
    /\ agvs[1].target_x = Some(DEPOT_X) /\ agvs[1].target_z = Some(DEPOT_Z)

\* the vehicle ids of a table or of the fleet
IdsOf(s) == {s[i].id : i \in 1..Len(s)}

(* C25: the engine never creates or destroys vehicles: no step changes the  *)
(* set of vehicle ids held by the store, a start against an empty store     *)
(* included; the fleet in memory is the set of rows read at startup and     *)
(* keeps its ids afterwards.                                                *)
C25_NoVehicleCreatedOrDestroyed ==
    [][/\ IdsOf(db_agvs') = IdsOf(db_agvs)
       /\ (pc # "start") => IdsOf(agvs') = IdsOf(agvs)
       /\ (pc = "start" /\ pc' = "top") =>
            (IdsOf(agvs') = IdsOf(agv_data') /\ IdsOf(agv_data') \subseteq IdsOf(db_agvs))]_vars

(* C26: within one tick every vehicle's update in memory is completed       *)
(* before any store write of that tick: once a save_to_db has run, the loop *)
(* runs no update before the next iteration begins, in both variants.       *)
C26_UpdatesBeforeWrites ==
    [][(pc \in {"save", "flush"}) => pc' # "update"]_vars

(* C27: the dt handed to update in an iteration is the wall-clock time that *)
(* elapsed since the previous iteration began, times the simulation-speed   *)
(* multiplier, also when an iteration lasts longer than the nominal 100 ms, *)
(* in both variants; the sum of the dt of a run is then the elapsed wall    *)
(* time times the multiplier.                                               *)
C27_DtIsElapsedTime ==
    [][(pc = "top" /\ pc' = "update" /\ clock > 0) => dt' = iter_dur * sim_speed]_vars

\* the step is an invocation of assign_mission
Invoked ==
    /\ pc = "dispatch"
    /\ \/ last_mission' # last_mission
       \/ am' # am \/ db_missions' # db_missions \/ agvs' # agvs
       \/ LoopEnded(pc')

(* C28: the dispatcher runs on its own timer, slower than the tick:         *)
(* assign_mission is invoked at most once per loop iteration and only when  *)
(* more than 10 s have passed since its previous invocation, or since the   *)
(* loop started, and while the loop of simulation.py runs it is invoked     *)
(* again and again.                                                         *)
C28_DispatcherOnItsTimer ==
    /\ [][Invoked => /\ clock - last_mission > MISSION_PERIOD
                     /\ ~LoopEnded(pc') => last_mission' = clock]_vars
    /\ [][(pc = "dispatch") => pc' # "dispatch"]_vars
    /\ (variant = "rest") => []<><<Invoked>>_vars

\* assign_mission has just been invoked and the timer restarted
C28_Witness ==
    /\ variant = "rest" /\ pc = "stock"
    /\ am.called
    /\ last_mission = clock

(* C29: in simulation_postgres.py a flush happens on exactly every 10th     *)
(* loop iteration and on no other: the counter counts the iterations since  *)
(* the last flush, the flush is started exactly when it reaches 10, writes  *)
(* every vehicle of the fleet and resets the counter to 0, and between      *)
(* iterations the counter is in 0..9.                                       *)
C29_FlushEveryTenth ==
    /\ [](variant = "pg" /\ pc \in {"sleep", "top", "update"}
            => update_counter \in 0..(FLUSH_EVERY - 1))
    /\ [][(variant = "pg" /\ pc = "count") =>
            /\ (pc' = "flush" \/ update_counter' = 0)
                 <=> (update_counter = FLUSH_EVERY - 1)
            /\ (update_counter # FLUSH_EVERY - 1)
                 => (update_counter' = update_counter + 1 /\ db_agvs' = db_agvs)]_vars
    /\ [][(pc = "flush" /\ pc' = "sleep") =>
            /\ update_counter' = 0
            /\ \A i \in Fleet : db_agvs'[i] = PgRow(agvs[i], db_agvs[i])]_vars
    /\ [][(variant = "pg" /\ pc \notin {"start", "flush"}) => db_agvs' = db_agvs]_vars

\* the 10th iteration has flushed a fleet of two and restarted the counter
C29_Witness ==
    /\ variant = "pg" /\ pc = "sleep"
    /\ update_counter = 0 /\ clock > 0
    /\ Len(agvs) = 2
    /\ \A i \in Fleet : db_agvs[i].status = agvs[i].status /\ db_agvs[i].battery = agvs[i].battery
    /\ db_agvs # agv_data

(* C30: the loop stops cooperatively: once the shutdown signal is given the *)
(* loop finishes the iteration in progress and terminates in its final     *)
(* sleep or at the head of the next one, so it never stops in the middle of *)
(* an iteration, between the updates or the store writes of a tick.         *)
C30_StopsBetweenIterations ==
    /\ [][(pc # "stopped" /\ pc' = "stopped") => pc \in {"top", "sleep"}]_vars
    /\ [][(variant = "rest" /\ pc = "top" /\ ~running) => pc' = "stopped"]_vars

\* the data-model invariants of vehicle i of fleet s: a target exactly in a
\* moving status, at most one open mission in the store, and the vehicle
\* bound to its open mission
Sound(s, i) ==
    /\ HasTarget(s[i]) <=> s[i].status \in Moving
    /\ Cardinality(OpenMissions(s[i].id)) <= 1
    /\ \A k \in OpenMissions(s[i].id) :
         s[i].mission # None /\ Val(s[i].mission).id = db_missions[k].id

(* C31: a crash of the engine followed by a restart from the persisted      *)
(* rows does not corrupt the data-model invariants: a vehicle for which     *)
(* they held when the engine crashed still has its target exactly in a      *)
(* moving status, at most one open mission, and is still bound to it,       *)
(* after the restart.                                                       *)
C31_RestartKeepsInvariants ==
    [][(LoopEnded(pc) /\ pc' = "top") =>
         \A i \in Fleet :
             (i <= Len(agvs') /\ Sound(agvs, i)) => Sound(agvs', i)]_vars


\* the statuses of a vehicle of simulation.py that is on a mission
OnMissionRest == {"moving_to_pick", "loading", "moving_to_drop", "unloading"}

\* every row handed to __init__ was idle or charging
LoadedAtRest ==
    \A i \in 1..Len(agv_data) : agv_data[i].status \in {"idle", "charging"}

(* C32: in simulation.py, for a fleet loaded with every vehicle idle or     *)
(* charging, in every reachable state a vehicle's mission reference is None *)
(* exactly when its status is idle or charging, and is a mission record     *)
(* exactly when its status is moving-to-pickup, loading, moving-to-dropoff  *)
(* or unloading.                                                            *)
C32_MissionIffOnMission ==
    (variant = "rest" /\ LoadedAtRest) =>
        \A i \in 1..Len(agvs) :
            /\ agvs[i].mission = None <=> agvs[i].status \in {"idle", "charging"}
            /\ agvs[i].mission # None <=> agvs[i].status \in OnMissionRest

C32_Witness ==
    /\ variant = "rest" /\ LoadedAtRest
    /\ \E i \in 1..Len(agvs) :
         /\ agvs[i].status = "unloading"
         /\ agvs[i].mission # None
         /\ agvs[i].loading_timer > 0


\* the statuses of a vehicle on a mission, under the names of either variant
OnMission == OnMissionRest \cup {"moving_to_pickup", "moving_to_dropoff"}

(* C33: a vehicle that is on a mission (status moving-to-pickup, loading,   *)
(* moving-to-dropoff or unloading) never transitions to charging, whatever  *)
(* its battery: it keeps moving even at battery 0, and the only status from *)
(* which charging is entered is idle, in both engine variants.              *)
C33_OnMissionNeverCharges ==
    [][(pc = "unit" /\ pc' # "unit") =>
         LET a == agvs[1]
             b == agvs'[1]
         IN  /\ a.status \in OnMission => b.status # "charging"
             /\ (b.status = "charging" /\ a.status # "charging") => a.status = "idle"
             /\ (FarFromTarget(a, dt') /\ dt' > 0 /\ a.battery = 0) =>
                    /\ b.status = a.status
                    /\ <<b.x, b.z>> # <<a.x, a.z>>
                    /\ b.battery = 0]_vars

\* a vehicle with battery 0 has advanced 2 m towards its target in one
\* update(1.0) and is still moving
C33_Witness ==
    /\ pc = "updated" /\ dt = 10
    /\ agvs[1].status \in Moving
    /\ agvs[1].battery = 0
    /\ agvs[1].x = 0 /\ agvs[1].z = 2000
    /\ agvs[1].target_x = Some(0) /\ agvs[1].target_z = Some(10000)

====
